---- MODULE Spec2Model ----
(***************************************************************************)
(* Model of apps/blender/.../verifier_tools/crop_generator.py              *)
(*                                                                         *)
(* The program is Python floating point arithmetic throughout, so the      *)
(* model carries the floats exactly.  A float is held as the integer       *)
(* value * 2^75, written in NL limbs of 15 bits (least significant limb    *)
(* first).  Every binary64 and binary32 value the program can produce from *)
(* the inputs enumerated below is a multiple of 2^-75 and is below 2^15,   *)
(* so the representation is exact; each float operation is the exact       *)
(* operation followed by round-to-nearest-even to 53 (or 24) bits.         *)
(***************************************************************************)
EXTENDS Integers, Sequences, FiniteSets, TLC

\* ---------------------------------------------------------------------
\* Exact arithmetic on the limb representation
\* ---------------------------------------------------------------------
BASE == 32768
NL == 6
Limbs == 1..NL

\* the element of a one element set.  An operator below takes its arguments
\* through x \in {a}, which names the value of a, so that it is computed once.
Val(S) == CHOOSE v \in S : TRUE

\* the limbs as a tuple
Big(f) == SubSeq(f, 1, NL)

\* carry propagation over limbs that left 0 .. BASE-1
Norm(w) ==
  LET c[i \in 0..NL] == IF i = 0 THEN 0 ELSE (w[i] + c[i-1]) \div BASE
  IN Val({ Big([i \in Limbs |-> (w[i] + carry[i]) % BASE]) :
             carry \in {Big([i \in 1..NL+1 |-> c[i-1]])} })

BigAdd(a, b) ==
  Val({ Norm(Big([i \in Limbs |-> x[i] + y[i]])) : x \in {a}, y \in {b} })

\* a - b for a >= b
BigSub(a, b) ==
  Val({ Norm(Big([i \in Limbs |-> x[i] - y[i]])) : x \in {a}, y \in {b} })

BigMulInt(a, k) ==
  Val({ Norm(Big([i \in Limbs |-> x[i] * k])) : x \in {a} })

\* -1, 0, 1 as a < b, a = b, a > b
BigCmp(a, b) ==
  Val({ IF x = y THEN 0
        ELSE LET t == CHOOSE i \in Limbs :
                        x[i] # y[i] /\ \A j \in Limbs : j > i => x[j] = y[j]
             IN IF x[t] < y[t] THEN -1 ELSE 1 : x \in {a}, y \in {b} })

BigFromInt(n) == Big([i \in Limbs |-> IF i = NL THEN n ELSE 0])

Pow2(s) == Big([i \in Limbs |-> IF i = (s \div 15) + 1 THEN 2^(s % 15) ELSE 0])

\* quotient and remainder of a by the integer d
DivRem(a, d) ==
  LET r[i \in 1..NL+1] == IF i = NL+1 THEN 0 ELSE (r[i+1] * BASE + a[i]) % d
  IN Val({ [q |-> Big([i \in Limbs |-> (rem[i+1] * BASE + a[i]) \div d]), r |-> rem[1]] :
             rem \in {[i \in 1..NL+1 |-> r[i]]} })

LimbBits(x) == IF x = 0 THEN 0 ELSE CHOOSE n \in 1..15 : 2^(n-1) <= x /\ x < 2^n

BitLen(a) ==
  IF \A i \in Limbs : a[i] = 0 THEN 0
  ELSE LET t == CHOOSE i \in Limbs : a[i] # 0 /\ \A j \in Limbs : j > i => a[j] = 0
       IN 15 * (t - 1) + LimbBits(a[t])

\* x with its n > p significant bits rounded to p
RoundBits(x, n, p, sticky) ==
  LET s == n - p
      li == (s \div 15) + 1
      bs == s % 15
      rem == Big([i \in Limbs |-> IF i < li THEN x[i]
                                  ELSE IF i = li THEN x[i] % (2^bs) ELSE 0])
      odd == (x[li] \div (2^bs)) % 2 = 1
      c == BigCmp(rem, Pow2(s - 1))
      up == c = 1 \/ (c = 0 /\ (sticky \/ odd))
  IN IF up THEN BigAdd(BigSub(x, rem), Pow2(s)) ELSE BigSub(x, rem)

\* round-to-nearest, ties-to-even, to p significant bits; sticky says that
\* the exact value lies strictly above a (a is a truncated quotient)
RoundTo(a, p, sticky) ==
  Val({ IF n <= p THEN x ELSE RoundBits(x, n, p, sticky) :
          x \in {a}, n \in {BitLen(a)} })

\* ---------------------------------------------------------------------
\* Python float (binary64) and numpy.float32 operations
\* ---------------------------------------------------------------------
\* the float nearest n/d: a decimal literal, and int / int true division
Dec(n, d) == Val({ RoundTo(qr.q, 53, qr.r # 0) : qr \in {DivRem(BigFromInt(n), d)} })

FAdd(a, b) == RoundTo(BigAdd(a, b), 53, FALSE)

\* a - b for a >= b
FSub(a, b) == RoundTo(BigSub(a, b), 53, FALSE)

\* float * int (the int converts to float exactly)
FMulInt(a, k) == RoundTo(BigMulInt(a, k), 53, FALSE)

FLt(a, b) == BigCmp(a, b) = -1
FLe(a, b) == BigCmp(a, b) # 1
FGe(a, b) == BigCmp(a, b) # -1

\* numpy.float32(x)
Float32(a) == RoundTo(a, 24, FALSE)

\* numpy.float32(k) * numpy.float32(x), k an integer below 2^15
Float32Mul(k, x) == RoundTo(BigMulInt(Float32(x), k), 24, FALSE)

\* math.floor
Floor(a) == a[NL]

HalfFrac == Big([i \in Limbs |-> IF i = NL - 1 THEN BASE \div 2 ELSE 0])

\* round(x) of a float x >= 0: nearest integer, ties to even
RoundInt(a) ==
  Val({ LET c == BigCmp(Big([i \in Limbs |-> IF i = NL THEN 0 ELSE x[i]]), HalfFrac)
        IN IF c = 1 \/ (c = 0 /\ x[NL] % 2 = 1) THEN x[NL] + 1 ELSE x[NL] : x \in {a} })

\* round(x, 2) of a float x >= 0: the float nearest to the exact value of x
\* rounded (ties to even) to a multiple of 1/100
Round2(x) == Dec(RoundInt(BigMulInt(x, 100)), 100)

\* ---------------------------------------------------------------------
\* crop_generator.py
\* ---------------------------------------------------------------------
VARIABLES
  resolution,        \* argument: [width, height] (Python index 0, 1 is 1, 2 here)
  subtask_box,       \* argument: FloatingPointBox (SubImage.region for Crop)
  crop_box,          \* argument of NewCrop: <<box>>, or <<>> for None
  pc,                \* "init", "NewCrop", "Crop" (object constructed), "raised"
  error,             \* the exception that left the constructor, "" for none
  draws,             \* random.randint calls that returned a value
  relative_size,     \* <<width, height>> the sampler resolved, <<>> if it did not run
  box,               \* NewCrop.box: <<box>> once constructed
  x_pixels,          \* last value of NewCrop.x_pixels, <<>> before
  y_pixels,          \* last value of NewCrop.y_pixels, <<>> before
  calculated,        \* last PixelRegion of NewCrop._calculate_crop_region_to_pixel_region
  crop_region,       \* Crop.crop_region: <<box>> once constructed
  pixel_region,      \* Crop.pixel_region: <<region>> once constructed
  lpc,               \* position in the minimum size loops, "" outside them
  loop_class,        \* whose loops run: "NewCrop" or "Crop"
  relative_crop_width,   \* local of the loops
  relative_crop_height,  \* local of the loops
  iterations         \* iterations the current loop has made

vars == <<resolution, subtask_box, crop_box, pc, error, draws, relative_size, box,
          x_pixels, y_pixels, calculated, crop_region, pixel_region,
          lpc, loop_class, relative_crop_width, relative_crop_height, iterations>>

None == <<>>

CROP_RELATIVE_SIZE == Dec(1, 10)
MIN_CROP_SIZE == 8
\* a step of 1 // 100
STEP_SIZE_floor_division == BigFromInt(1 \div 100)

STEP_SIZE == Dec(1, 100)

FloatingPointBox(left, top, right, bottom) ==
  [left |-> left, top |-> top, right |-> right, bottom |-> bottom]

PixelRegion(left, top, right, bottom) ==
  [left |-> left, top |-> top, right |-> right, bottom |-> bottom]

\* __contains__ without the test of the bottom edge
Contains_no_bottom(self, item) ==
  /\ FGe(item.left, self.left)
  /\ FLe(item.right, self.right)
  /\ FGe(item.top, self.top)

\* FloatingPointBox.__contains__: item in self
Contains(self, item) ==
  /\ FGe(item.left, self.left)
  /\ FLe(item.right, self.right)
  /\ FGe(item.top, self.top)
  /\ FLe(item.bottom, self.bottom)

\* the while condition with <= for <
TooSmall_or_equal(relative_crop_size, axis) ==
  FLe(FMulInt(relative_crop_size, axis), BigFromInt(MIN_CROP_SIZE))

\* the while condition: relative size * resolution axis < MIN_CROP_SIZE
TooSmall(relative_crop_size, axis) ==
  FLt(FMulInt(relative_crop_size, axis), BigFromInt(MIN_CROP_SIZE))

\* while <condition>: relative_crop_size += step
RECURSIVE IncreaseWhileTooSmall(_, _, _)
IncreaseWhileTooSmall(relative_crop_size, axis, step) ==
  IF TooSmall(relative_crop_size, axis)
  THEN IncreaseWhileTooSmall(FAdd(relative_crop_size, step), axis, step)
  ELSE relative_crop_size

NewCrop_get_relative_crop_size(res) ==
  <<IncreaseWhileTooSmall(CROP_RELATIVE_SIZE, res[1], STEP_SIZE),
    IncreaseWhileTooSmall(CROP_RELATIVE_SIZE, res[2], STEP_SIZE)>>

\* round((upper_border - span) * 100); the difference may be negative
coordinate_beginning_limit(upper_border, span) ==
  IF FGe(upper_border, span)
  THEN RoundInt(FMulInt(FSub(upper_border, span), 100))
  ELSE 0 - RoundInt(FMulInt(FSub(span, upper_border), 100))

\* the values random.randint(round(lower_border * 100), limit) can return;
\* randint raises ValueError when there is none
RandintRange(lower_border, upper_border, span) ==
  RoundInt(FMulInt(lower_border, 100)) .. coordinate_beginning_limit(upper_border, span)

\* _get_coordinate_limits with the span left out of the end
NewCrop_get_coordinate_limits_no_span(drawn, span) ==
  LET beginning == Dec(drawn, 100)
      end == Round2(beginning)
  IN <<beginning, end>>

\* NewCrop._get_coordinate_limits, given the value randint returned
NewCrop_get_coordinate_limits(drawn, span) ==
  LET beginning == Dec(drawn, 100)
      end == Round2(FAdd(beginning, span))
  IN <<beginning, end>>

\* NewCrop._generate_random_crop_box, given the two values randint returned
NewCrop_generate_random_crop_box(size, drawn_x, drawn_y) ==
  LET x == NewCrop_get_coordinate_limits(drawn_x, size[1])
      y == NewCrop_get_coordinate_limits(drawn_y, size[2])
  IN FloatingPointBox(x[1], y[1], x[2], y[2])

NewCrop_validate_crop_is_within_subtask(b, subtask) == Contains(subtask, b)

NewCrop_get_x_coordinates_as_pixels(res, subtask, b) ==
  LET x_pixel_min == Floor(Float32Mul(res[1], b.left))
                       - Floor(Float32Mul(res[1], subtask.left))
      x_pixel_max == Floor(Float32Mul(res[1], b.right))
  IN <<x_pixel_min, x_pixel_max>>

\* _get_y_coordinates_as_pixels returning (bottom, top)
NewCrop_get_y_coordinates_swapped(res, subtask, b) ==
  LET y_pixel_min == Floor(Float32Mul(res[2], subtask.bottom))
                       - Floor(Float32Mul(res[2], b.bottom))
      y_pixel_max == Floor(Float32Mul(res[2], subtask.bottom))
                       - Floor(Float32Mul(res[2], b.top))
  IN <<y_pixel_max, y_pixel_min>>

NewCrop_get_y_coordinates_as_pixels(res, subtask, b) ==
  LET y_pixel_min == Floor(Float32Mul(res[2], subtask.bottom))
                       - Floor(Float32Mul(res[2], b.bottom))
      y_pixel_max == Floor(Float32Mul(res[2], subtask.bottom))
                       - Floor(Float32Mul(res[2], b.top))
  IN <<y_pixel_min, y_pixel_max>>

\* _calculate_crop_region_to_pixel_region without the vertical flip
NewCrop_calculate_no_flip(res, subtask, b) ==
  LET x_pixel_min0 == Floor(Float32Mul(res[1], b.left))
      x_pixel_min == x_pixel_min0 - Floor(Float32Mul(res[1], subtask.left))
      x_pixel_max == Floor(Float32Mul(res[1], b.right))
      y_pixel_max == Floor(Float32Mul(res[2], b.bottom))
                       - Floor(Float32Mul(res[2], subtask.top))
      y_pixel_min == Floor(Float32Mul(res[2], b.top))
                       - Floor(Float32Mul(res[2], subtask.top))
  IN PixelRegion(x_pixel_min, y_pixel_min, x_pixel_max, y_pixel_max)

NewCrop_calculate_crop_region_to_pixel_region(res, subtask, b) ==
  LET x_pixel_min0 == Floor(Float32Mul(res[1], b.left))
      x_pixel_min == x_pixel_min0 - Floor(Float32Mul(res[1], subtask.left))
      x_pixel_max == Floor(Float32Mul(res[1], b.right))
      y_pixel_max == Floor(Float32Mul(res[2], subtask.bottom))
                       - Floor(Float32Mul(res[2], b.bottom))
      y_pixel_min == Floor(Float32Mul(res[2], subtask.bottom))
                       - Floor(Float32Mul(res[2], b.top))
  IN PixelRegion(x_pixel_min, y_pixel_max, x_pixel_max, y_pixel_min)

\* Crop._get_random_float_region: the resolved sizes
Crop_relative_crop_size(res) ==
  <<IncreaseWhileTooSmall(CROP_RELATIVE_SIZE, res[1], Dec(1, 100)),
    IncreaseWhileTooSmall(CROP_RELATIVE_SIZE, res[2], Dec(1, 100))>>

\* Crop._get_random_float_region: x_difference, y_difference
Crop_difference(crop_scene_max, relative_crop_size) ==
  IF FGe(crop_scene_max, relative_crop_size)
  THEN RoundInt(FMulInt(FSub(crop_scene_max, relative_crop_size), 100))
  ELSE 0 - RoundInt(FMulInt(FSub(relative_crop_size, crop_scene_max), 100))

\* Crop._get_random_float_region: what its randint calls can return
Crop_randint_range(crop_scene_min, crop_scene_max, relative_crop_size) ==
  RoundInt(FMulInt(crop_scene_min, 100)) .. Crop_difference(crop_scene_max, relative_crop_size)

\* Crop._get_random_float_region, given the two values randint returned
Crop_get_random_float_region(size, drawn_x, drawn_y) ==
  LET x_min == Dec(drawn_x, 100)
      x_max == Round2(FAdd(x_min, size[1]))
      y_min == Dec(drawn_y, 100)
      y_max == Round2(FAdd(y_min, size[2]))
  IN FloatingPointBox(x_min, y_min, x_max, y_max)

Crop_calculate_crop_region_to_pixel_region(res, region, crop) ==
  LET x_pixel_min0 == Floor(Float32Mul(res[1], crop.left))
      x_pixel_min == x_pixel_min0 - Floor(Float32Mul(res[1], region.left))
      x_pixel_max == Floor(Float32Mul(res[1], crop.right))
      y_pixel_max == Floor(Float32Mul(res[2], region.bottom))
                       - Floor(Float32Mul(res[2], crop.bottom))
      y_pixel_min == Floor(Float32Mul(res[2], region.bottom))
                       - Floor(Float32Mul(res[2], crop.top))
  IN PixelRegion(x_pixel_min, y_pixel_max, x_pixel_max, y_pixel_min)

\* ---------------------------------------------------------------------
\* The calls: arguments drawn from small sets
\* ---------------------------------------------------------------------
\* largest amount, in thousandths, by which a supplied crop box leaves the subtask box
MaxExceed == 2
\* the minimum size loops run for the axis lengths 1 .. MaxAxis
MaxAxis == 80

Some(x) == <<x>>

\* a box written with decimal literals of three places: Box(204, 0, 340, 130) is
\* FloatingPointBox(left=0.204, top=0.0, right=0.34, bottom=0.13)
Box(left, top, right, bottom) ==
  FloatingPointBox(Dec(left, 1000), Dec(top, 1000), Dec(right, 1000), Dec(bottom, 1000))

Unit == Box(0, 0, 1000, 1000)

\* subtask boxes handed to the samplers: on and off the grid of hundredths, as
\* wide as the minimum size exactly, and too small on one axis
SampledSubtasks ==
  { Box(200, 500, 350, 700), Box(204, 0, 340, 130), Box(0, 300, 120, 396),
    Box(200, 200, 300, 300), Box(0, 0, 300, 50), Box(0, 0, 50, 300),
    Box(0, 0, 110, 160), Box(500, 250, 700, 500) }

SampledResolutions == { <<1920, 1080>>, <<79, 50>>, <<40, 32>> }

\* crop boxes supplied for a subtask box given in thousandths: the box itself,
\* the box with one edge moved out or in, an inner box, a box of no width
SuppliedFor(l, t, r, b) ==
  { Box(l, t, r, b), Box(l + 100, t + 100, l + 200, t + 200),
    Box(l + 100, t + 100, l + 100, t + 200), Box(l + 530, t + 70, l + 590, t + 290) }
  \cup { Box(l, t, r + e, b) : e \in 1..MaxExceed }
  \cup { Box(l, t, r, b + e) : e \in 1..MaxExceed }
  \cup { Box(l + 100 - e, t, r, b) : e \in 1..MaxExceed }
  \cup { Box(l, t + 100 - e, r, b) : e \in 1..MaxExceed }
  \cup { Box(l + e, t + e, r - e, b - e) : e \in 1..MaxExceed }

Scenarios ==
  { [resolution |-> res, subtask_box |-> s, crop_box |-> None] :
      res \in SampledResolutions, s \in SampledSubtasks }
  \cup { [resolution |-> res, subtask_box |-> Unit, crop_box |-> Some(c)] :
           res \in { <<1920, 1080>>, <<100, 100>> }, c \in SuppliedFor(0, 0, 1000, 1000) }
  \cup { [resolution |-> <<100, 100>>, subtask_box |-> Box(100, 100, 900, 900),
          crop_box |-> Some(c)] : c \in SuppliedFor(100, 100, 900, 900) }

Init ==
  /\ \E sc \in Scenarios :
       /\ resolution = sc.resolution
       /\ subtask_box = sc.subtask_box
       /\ crop_box = sc.crop_box
  /\ pc = "init"
  /\ error = ""
  /\ draws = 0
  /\ relative_size = None
  /\ box = None
  /\ x_pixels = None
  /\ y_pixels = None
  /\ calculated = None
  /\ crop_region = None
  /\ pixel_region = None
  /\ lpc = ""
  /\ loop_class = ""
  /\ relative_crop_width = CROP_RELATIVE_SIZE
  /\ relative_crop_height = CROP_RELATIVE_SIZE
  /\ iterations = 0

args == <<resolution, subtask_box, crop_box>>
loop == <<lpc, loop_class, relative_crop_width, relative_crop_height, iterations>>

\* an exception leaves the constructor: no object
Raise(e, n, size) ==
  /\ pc' = "raised"
  /\ error' = e
  /\ draws' = n
  /\ relative_size' = size
  /\ UNCHANGED <<box, crop_region, pixel_region>>

\* self.box = ...; self._validate_crop_is_within_subtask()
NewCrop_finish(b, n, size) ==
  IF NewCrop_validate_crop_is_within_subtask(b, subtask_box)
  THEN /\ pc' = "NewCrop"
       /\ error' = ""
       /\ draws' = n
       /\ relative_size' = size
       /\ box' = Some(b)
       /\ UNCHANGED <<crop_region, pixel_region>>
  ELSE Raise("ValueError: Crop box is not within subtask box!", n, size)

\* NewCrop.__init__
NewCrop_init ==
  /\ pc = "init"
  /\ IF crop_box # None
     THEN NewCrop_finish(crop_box[1], 0, None)
     ELSE LET size == NewCrop_get_relative_crop_size(resolution)
              xs == RandintRange(subtask_box.left, subtask_box.right, size[1])
              ys == RandintRange(subtask_box.top, subtask_box.bottom, size[2])
          IN IF xs = {} THEN Raise("ValueError: empty range for randrange()", 0, Some(size))
             ELSE IF ys = {} THEN Raise("ValueError: empty range for randrange()", 1, Some(size))
             ELSE \E drawn_x \in xs, drawn_y \in ys :
                    NewCrop_finish(NewCrop_generate_random_crop_box(size, drawn_x, drawn_y),
                                   2, Some(size))
  /\ UNCHANGED <<args, x_pixels, y_pixels, calculated, loop>>

\* NewCrop.x_pixels
NewCrop_x_pixels ==
  /\ pc = "NewCrop"
  /\ x_pixels' = Some(NewCrop_get_x_coordinates_as_pixels(resolution, subtask_box, box[1]))
  /\ UNCHANGED <<args, pc, error, draws, relative_size, box, y_pixels, calculated,
                 crop_region, pixel_region, loop>>

\* NewCrop.y_pixels
NewCrop_y_pixels ==
  /\ pc = "NewCrop"
  /\ y_pixels' = Some(NewCrop_get_y_coordinates_as_pixels(resolution, subtask_box, box[1]))
  /\ UNCHANGED <<args, pc, error, draws, relative_size, box, x_pixels, calculated,
                 crop_region, pixel_region, loop>>

\* NewCrop._calculate_crop_region_to_pixel_region
NewCrop_calculate ==
  /\ pc = "NewCrop"
  /\ calculated' = Some(NewCrop_calculate_crop_region_to_pixel_region(
                          resolution, subtask_box, box[1]))
  /\ UNCHANGED <<args, pc, error, draws, relative_size, box, x_pixels, y_pixels,
                 crop_region, pixel_region, loop>>

\* Crop.__init__ with subimage = SubImage(subtask_box, resolution); Crop takes no
\* crop box, so the calls that carry one are calls of NewCrop
Crop_init ==
  /\ pc = "init"
  /\ crop_box = None
  /\ LET size == Crop_relative_crop_size(resolution)
         xs == Crop_randint_range(subtask_box.left, subtask_box.right, size[1])
         ys == Crop_randint_range(subtask_box.top, subtask_box.bottom, size[2])
     IN IF xs = {} THEN Raise("ValueError: empty range for randrange()", 0, Some(size))
        ELSE IF ys = {} THEN Raise("ValueError: empty range for randrange()", 1, Some(size))
        ELSE \E drawn_x \in xs, drawn_y \in ys :
               LET region == Crop_get_random_float_region(size, drawn_x, drawn_y) IN
               /\ pc' = "Crop"
               /\ error' = ""
               /\ draws' = 2
               /\ relative_size' = Some(size)
               /\ crop_region' = Some(region)
               /\ pixel_region' = Some(Crop_calculate_crop_region_to_pixel_region(
                                         resolution, subtask_box, region))
               /\ UNCHANGED box
  /\ UNCHANGED <<args, x_pixels, y_pixels, calculated, loop>>

Next ==
  \/ NewCrop_init
  \/ NewCrop_x_pixels
  \/ NewCrop_y_pixels
  \/ NewCrop_calculate
  \/ Crop_init

Spec == Init /\ [][Next]_vars

\* ---------------------------------------------------------------------
\* The minimum size loops, one iteration at a time
\* ---------------------------------------------------------------------
LoopResolutions == { <<a, MaxAxis + 1 - a>> : a \in 1..MaxAxis }

\* NewCrop adds STEP_SIZE, Crop the literal 0.01
LoopStep(class) == IF class = "NewCrop" THEN STEP_SIZE ELSE Dec(1, 100)

LoopInit ==
  /\ resolution \in LoopResolutions
  /\ loop_class \in {"NewCrop", "Crop"}
  /\ lpc = "width"
  /\ relative_crop_width = CROP_RELATIVE_SIZE
  /\ relative_crop_height = CROP_RELATIVE_SIZE
  /\ iterations = 0
  /\ subtask_box = Unit
  /\ crop_box = None
  /\ pc = "sizing"
  /\ error = ""
  /\ draws = 0
  /\ relative_size = None
  /\ box = None
  /\ x_pixels = None
  /\ y_pixels = None
  /\ calculated = None
  /\ crop_region = None
  /\ pixel_region = None

rest == <<resolution, subtask_box, crop_box, pc, error, draws, relative_size, box,
          x_pixels, y_pixels, calculated, crop_region, pixel_region, loop_class>>

WidthIncrease ==
  /\ lpc = "width"
  /\ TooSmall(relative_crop_width, resolution[1])
  /\ relative_crop_width' = FAdd(relative_crop_width, LoopStep(loop_class))
  /\ iterations' = iterations + 1
  /\ UNCHANGED <<rest, lpc, relative_crop_height>>

WidthExit ==
  /\ lpc = "width"
  /\ ~TooSmall(relative_crop_width, resolution[1])
  /\ lpc' = "height"
  /\ iterations' = 0
  /\ UNCHANGED <<rest, relative_crop_width, relative_crop_height>>

HeightIncrease ==
  /\ lpc = "height"
  /\ TooSmall(relative_crop_height, resolution[2])
  /\ relative_crop_height' = FAdd(relative_crop_height, LoopStep(loop_class))
  /\ iterations' = iterations + 1
  /\ UNCHANGED <<rest, lpc, relative_crop_width>>

HeightExit ==
  /\ lpc = "height"
  /\ ~TooSmall(relative_crop_height, resolution[2])
  /\ lpc' = "return"
  /\ UNCHANGED <<rest, relative_crop_width, relative_crop_height, iterations>>

LoopNext ==
  \/ WidthIncrease
  \/ WidthExit
  \/ HeightIncrease
  \/ HeightExit

LoopSpec == LoopInit /\ [][LoopNext]_vars

\* ---------------------------------------------------------------------
\* Properties
\* ---------------------------------------------------------------------
\* c lies within s edge by edge, inclusively, as exact values
Inside(c, s) ==
  /\ BigCmp(c.left, s.left) >= 0
  /\ BigCmp(c.right, s.right) <= 0
  /\ BigCmp(c.top, s.top) >= 0
  /\ BigCmp(c.bottom, s.bottom) <= 0

\* C1: NewCrop is constructed only with a box that lies within the subtask box
\* edge by edge and inclusively, whether the box was supplied or sampled; a
\* supplied box that lies within it (the subtask box itself included) is accepted
\* and kept as it is; a supplied box that leaves it on any edge makes the
\* constructor raise, and no object holds a clamped box.
C1_ContainmentEnforced ==
  /\ pc = "NewCrop" => box # None /\ Inside(box[1], subtask_box)
  /\ (pc # "init" /\ crop_box # None /\ Inside(crop_box[1], subtask_box))
       => pc = "NewCrop" /\ box = crop_box /\ error = ""
  /\ (pc # "init" /\ crop_box # None /\ ~Inside(crop_box[1], subtask_box))
       => /\ pc = "raised"
          /\ box = None
          /\ error = "ValueError: Crop box is not within subtask box!"

\* a box that exceeds the right edge of the full frame by 0.001 was refused
C1_Witness ==
  /\ pc = "raised"
  /\ subtask_box = Unit
  /\ crop_box = Some(Box(0, 0, 1001, 1000))

\* the subtask box is at least as wide and as high as the resolved size
Fits(s, size) ==
  /\ BigCmp(BigSub(s.right, s.left), size[1]) >= 0
  /\ BigCmp(BigSub(s.bottom, s.top), size[2]) >= 0

\* hi - lo and span are the same number of hundredths
SameHundredths(lo, hi, span) ==
  RoundInt(BigMulInt(BigSub(hi, lo), 100)) = RoundInt(BigMulInt(span, 100))

\* C2: when the subtask box is at least as large as the resolved size on both
\* axes, every outcome of the random draws gives a constructed crop whose box
\* lies within the subtask box and has the resolved width and height (compared
\* in hundredths, the coarsest reading of "equal" for floats).
C2_SampledBoxFits ==
  (crop_box = None /\ pc \in {"NewCrop", "raised"} /\ relative_size # None
     /\ Fits(subtask_box, relative_size[1]))
    => /\ pc = "NewCrop"
       /\ Inside(box[1], subtask_box)
       /\ SameHundredths(box[1].left, box[1].right, relative_size[1][1])
       /\ SameHundredths(box[1].top, box[1].bottom, relative_size[1][2])

PositiveRegion(p) == p.right > p.left /\ p.bottom > p.top

\* C5: a sampled crop box converts to a pixel box of positive width and height,
\* by every conversion of NewCrop and by Crop.
C5_SampledPixelsPositive ==
  crop_box = None =>
    /\ calculated # None => PositiveRegion(calculated[1])
    /\ pixel_region # None => PositiveRegion(pixel_region[1])
    /\ x_pixels # None => x_pixels[1][2] > x_pixels[1][1]
    /\ y_pixels # None => y_pixels[1][2] > y_pixels[1][1]

\* a sampled box of a subtask box away from the frame's origin was converted
C5_Witness ==
  /\ crop_box = None
  /\ calculated # None
  /\ pixel_region = None
  /\ subtask_box = Box(200, 500, 350, 700)
  /\ draws = 2
  /\ PositiveRegion(calculated[1])

\* the subtask box is smaller than span on the axis lower .. upper, by more than
\* half a hundredth
ShortOf(lower, upper, span) ==
  BigCmp(BigAdd(upper, Dec(5, 1000)), BigAdd(lower, span)) = -1

\* C6: with no crop box supplied and a subtask box smaller than the resolved
\* size on some axis, construction fails before any random draw, and no crop
\* object is produced.
C6_TooSmallFailsBeforeAnyDraw ==
  (crop_box = None /\ pc # "init" /\ relative_size # None
     /\ \/ ShortOf(subtask_box.left, subtask_box.right, relative_size[1][1])
        \/ ShortOf(subtask_box.top, subtask_box.bottom, relative_size[1][2]))
    => pc = "raised" /\ draws = 0 /\ box = None /\ crop_region = None

\* C7: the conversion never returns a pixel box of zero or negative width or
\* height (it signals an error instead).
C7_DegenerateRejected ==
  calculated # None => PositiveRegion(calculated[1])

\* C10: the pixel box of a constructed crop lies within the pixel extent of
\* its subtask box, whose origin is the subtask box's top left corner.
C10_PixelsWithinSubtaskExtent ==
  calculated # None =>
    LET p == calculated[1]
        w == resolution[1]
        h == resolution[2]
        s == subtask_box
    IN /\ 0 <= p.left
       /\ p.right <= Floor(Float32Mul(w, s.right)) - Floor(Float32Mul(w, s.left))
       /\ 0 <= p.top
       /\ p.bottom <= Floor(Float32Mul(h, s.bottom)) - Floor(Float32Mul(h, s.top))

\* the pixel box of crop box c in subtask box s at resolution w x h, every
\* product taken in 32 bit floats and floored
PixelFormula(w, h, s, c) ==
  [left |-> Floor(Float32Mul(w, c.left)) - Floor(Float32Mul(w, s.left)),
   right |-> Floor(Float32Mul(w, c.right)),
   top |-> Floor(Float32Mul(h, s.bottom)) - Floor(Float32Mul(h, c.bottom)),
   bottom |-> Floor(Float32Mul(h, s.bottom)) - Floor(Float32Mul(h, c.top))]

\* C4: the conversion returns left = floor(w*c.left) - floor(w*s.left),
\* right = floor(w*c.right), top = floor(h*s.bottom) - floor(h*c.bottom),
\* bottom = floor(h*s.bottom) - floor(h*c.top), the pixel top coming from the
\* crop's bottom; the full frame at 1920 x 1080 with the crop box
\* {0.1, 0.1, 0.2, 0.2} gives left 192, right 384, top 864, bottom 972.
C4_PixelConversion ==
  /\ calculated # None =>
       /\ calculated[1] = PixelFormula(resolution[1], resolution[2], subtask_box, box[1])
       /\ (resolution = <<1920, 1080>> /\ subtask_box = Unit
             /\ box[1] = Box(100, 100, 200, 200))
            => calculated[1] = [left |-> 192, right |-> 384, top |-> 864, bottom |-> 972]
  /\ pixel_region # None =>
       pixel_region[1] = PixelFormula(resolution[1], resolution[2], subtask_box,
                                      crop_region[1])

\* the example of the full frame at 1920 x 1080 was converted
C4_Witness ==
  /\ resolution = <<1920, 1080>>
  /\ subtask_box = Unit
  /\ box = Some(Box(100, 100, 200, 200))
  /\ calculated = Some([left |-> 192, right |-> 384, top |-> 864, bottom |-> 972])

\* C9: the conversions agree: x_pixels is (left, right) and y_pixels is
\* (top, bottom) of the PixelRegion NewCrop calculates, and Crop calculates the
\* same PixelRegion as NewCrop from the same resolution, subtask box and crop box.
C9_ConversionsAgree ==
  /\ (x_pixels # None /\ calculated # None)
       => x_pixels[1] = <<calculated[1].left, calculated[1].right>>
  /\ (y_pixels # None /\ calculated # None)
       => y_pixels[1] = <<calculated[1].top, calculated[1].bottom>>
  /\ calculated # None
       => calculated[1] = Crop_calculate_crop_region_to_pixel_region(
                            resolution, subtask_box, box[1])
  /\ pixel_region # None
       => pixel_region[1] = NewCrop_calculate_crop_region_to_pixel_region(
                              resolution, subtask_box, crop_region[1])

\* all three conversions of a NewCrop ran on a subtask box away from the origin
C9_Witness ==
  /\ x_pixels # None
  /\ y_pixels # None
  /\ calculated # None
  /\ subtask_box = Box(100, 100, 900, 900)
  /\ x_pixels[1][1] # x_pixels[1][2]
  /\ y_pixels[1][1] # y_pixels[1][2]

\* what C3 says of the relative size r returned for one axis, with the products
\* taken as the code takes them (in floats) and taken exactly
SmallestForAxis(r, axis) ==
  /\ FGe(FMulInt(r, axis), BigFromInt(8))
  /\ BigCmp(BigMulInt(r, axis), BigFromInt(8)) >= 0
  /\ \/ r = Dec(10, 100)
     \/ /\ BigCmp(r, Dec(10, 100)) = 1
        /\ FLt(FMulInt(FSub(r, Dec(1, 100)), axis), BigFromInt(8))
        /\ BigCmp(BigMulInt(BigSub(r, Dec(1, 100)), axis), BigFromInt(8)) = -1
  /\ axis = 80 => r = Dec(10, 100)
  /\ axis = 79 => r = Dec(11, 100)

C8_LoopsTerminate ==
  /\ lpc = "width" => iterations * resolution[1] <= 800
  /\ lpc \in {"height", "return"} => iterations * resolution[2] <= 800

\* both loops ended, the loop over a height of one pixel after 791 iterations
C8_Witness ==
  /\ lpc = "return"
  /\ relative_crop_height # CROP_RELATIVE_SIZE
  /\ resolution[2] = 1
  /\ iterations = 791

====
